---- MODULE Spec2Model ----
(***************************************************************************)
(* The chocobo registry of runtime/src/substratechocobos.rs: the storage   *)
(* items of decl_storage!, the six dispatchable calls of decl_module! and  *)
(* the two private helpers mint and transfer_from.  A call that returns    *)
(* Err keeps every write it made before the error (the runtime has no      *)
(* rollback of its own), so each handler is an operator from a store to a  *)
(* store and a result, composed in the order of the statements.            *)
(***************************************************************************)
EXTENDS Integers, Sequences, FiniteSets, TLC

\* ---------------------------------------------------------------- bounds
NumAccounts == 2        \* signed accounts 1..NumAccounts
HashLen == 2            \* bytes of a T::Hash
HashMod == 2            \* byte values a hash takes: 1..HashMod
MaxPrice == 1           \* largest price / max_price argument
MaxEvents == 3          \* calls are issued while the event log is shorter

\* u64::MAX.  TLC's integers are 32 bits wide, so its largest integer stands
\* for 2^64 - 1; no counter of the model comes near either value.
U64Max == 2147483647

AccountId == 1..NumAccounts
\* origin 0 is an origin that is not Signed (ensure_signed fails on it)
Origin == 0..NumAccounts
\* system::random_seed() is a hash of the parent block: two values of one of
\* its bytes, which with the sender and the nonce give different hashes
Seeds == {1, 2}
Balance == 0..MaxPrice
None == -1

VARIABLES
    Chocobos,            \* map T::Hash => Chocobo
    Owners,              \* map T::Hash => Option<AccountId>
    AllChocobosArray,    \* map u64 => T::Hash
    AllChocobosCount,    \* u64
    AllChocobosIndex,    \* map T::Hash => u64
    OwnedChocobosArray,  \* map (AccountId, u64) => T::Hash
    OwnedChocobosCount,  \* map AccountId => u64
    OwnedChocobosIndex,  \* map T::Hash => u64
    Nonce,               \* u64
    FreeBalance,         \* balances::Module free balance of each account
    events,              \* the event log deposit_event appends to
    call,                \* the last dispatched call and its Result
    pre                  \* the store that call was dispatched on

vars == <<Chocobos, Owners, AllChocobosArray, AllChocobosCount, AllChocobosIndex,
          OwnedChocobosArray, OwnedChocobosCount, OwnedChocobosIndex, Nonce,
          FreeBalance, events, call, pre>>

\* ------------------------------------------------------- storage helpers
\* StorageMap::get returns the value type's Default for an absent key
Get(m, k, d) == IF k \in DOMAIN m THEN m[k] ELSE d

Exists(m, k) == k \in DOMAIN m

Insert(m, k, v) == [x \in (DOMAIN m) \cup {k} |-> IF x = k THEN v ELSE m[x]]

Remove(m, k) == [x \in (DOMAIN m) \ {k} |-> m[x]]

EmptyMap == [x \in {} |-> 0]

\* H256::default(): all bytes zero
DefaultHash == [i \in 1..HashLen |-> 0]

DefaultChocobo ==
    [id |-> DefaultHash, dna |-> DefaultHash, price |-> 0, gen |-> 0, wins |-> 0, races |-> 0]

checked_add(x, y) == IF x > U64Max - y THEN None ELSE x + y

checked_sub(x, y) == IF x < y THEN None ELSE x - y

\* `+= 1` on a u64 in a release build of the runtime wraps
wrapping_inc(x) == IF x = U64Max THEN 0 ELSE x + 1

\* (random_seed, &sender, nonce).using_encoded(Hashing::hash): a deterministic
\* function of its three inputs; it is not injective, and never all-zero
Hash(seed, sender, nonce) ==
    [i \in 1..HashLen |-> 1 + ((seed * i + sender + nonce) % HashMod)]

ensure_signed(origin) == IF origin \in AccountId THEN origin ELSE None

\* ------------------------------------------------------------- the store
Store ==
    [Chocobos |-> Chocobos, Owners |-> Owners,
     AllChocobosArray |-> AllChocobosArray, AllChocobosCount |-> AllChocobosCount,
     AllChocobosIndex |-> AllChocobosIndex,
     OwnedChocobosArray |-> OwnedChocobosArray, OwnedChocobosCount |-> OwnedChocobosCount,
     OwnedChocobosIndex |-> OwnedChocobosIndex,
     Nonce |-> Nonce, FreeBalance |-> FreeBalance, events |-> events]

Ok(s) == [s |-> s, res |-> "Ok"]

Err(s, msg) == [s |-> s, res |-> msg]

choco_by_id(s, id) == Get(s.Chocobos, id, DefaultChocobo)

owner_of(s, id) == Get(s.Owners, id, None)

choco_of_owner_by_index(s, who, i) == Get(s.OwnedChocobosArray, <<who, i>>, DefaultHash)

count_by_account(s, who) == Get(s.OwnedChocobosCount, who, 0)

choco_by_index(s, i) == Get(s.AllChocobosArray, i, DefaultHash)

deposit_event(s, e) == [s EXCEPT !.events = Append(@, e)]

\* ------------------------------------------------------ private helpers
\* mint_writes with the global reverse index off by one (new_count for all_count)
mint_writes_all_index_off(s, to, choco_id, new_choco, owned_count, new_owned_count, all_count, new_count) ==
    LET s1 == [s EXCEPT
                 !.Chocobos = Insert(@, choco_id, new_choco),
                 !.Owners = Insert(@, choco_id, to),
                 !.AllChocobosArray = Insert(@, all_count, choco_id),
                 !.AllChocobosCount = new_count,
                 !.AllChocobosIndex = Insert(@, choco_id, new_count),
                 !.OwnedChocobosArray = Insert(@, <<to, owned_count>>, choco_id),
                 !.OwnedChocobosCount = Insert(@, to, new_owned_count),
                 !.OwnedChocobosIndex = Insert(@, choco_id, owned_count)]
    IN Ok(deposit_event(s1, [kind |-> "Created", who |-> to, id |-> choco_id]))

\* mint_writes without the write of the owner's new count
mint_writes_count_kept(s, to, choco_id, new_choco, owned_count, new_owned_count, all_count, new_count) ==
    LET s1 == [s EXCEPT
                 !.Chocobos = Insert(@, choco_id, new_choco),
                 !.Owners = Insert(@, choco_id, to),
                 !.AllChocobosArray = Insert(@, all_count, choco_id),
                 !.AllChocobosCount = new_count,
                 !.AllChocobosIndex = Insert(@, choco_id, all_count),
                 !.OwnedChocobosArray = Insert(@, <<to, owned_count>>, choco_id),
                 !.OwnedChocobosIndex = Insert(@, choco_id, owned_count)]
    IN Ok(deposit_event(s1, [kind |-> "Created", who |-> to, id |-> choco_id]))

\* mint_writes with the global array written at the owner's count
mint_writes_at_owned_count(s, to, choco_id, new_choco, owned_count, new_owned_count, all_count, new_count) ==
    LET s1 == [s EXCEPT
                 !.Chocobos = Insert(@, choco_id, new_choco),
                 !.Owners = Insert(@, choco_id, to),
                 !.AllChocobosArray = Insert(@, owned_count, choco_id),
                 !.AllChocobosCount = new_count,
                 !.AllChocobosIndex = Insert(@, choco_id, owned_count),
                 !.OwnedChocobosArray = Insert(@, <<to, owned_count>>, choco_id),
                 !.OwnedChocobosCount = Insert(@, to, new_owned_count),
                 !.OwnedChocobosIndex = Insert(@, choco_id, owned_count)]
    IN Ok(deposit_event(s1, [kind |-> "Created", who |-> to, id |-> choco_id]))

\* the writes of mint, once its three checks have passed
mint_writes(s, to, choco_id, new_choco, owned_count, new_owned_count, all_count, new_count) ==
    LET s1 == [s EXCEPT
                 !.Chocobos = Insert(@, choco_id, new_choco),
                 !.Owners = Insert(@, choco_id, to),
                 !.AllChocobosArray = Insert(@, all_count, choco_id),
                 !.AllChocobosCount = new_count,
                 !.AllChocobosIndex = Insert(@, choco_id, all_count),
                 !.OwnedChocobosArray = Insert(@, <<to, owned_count>>, choco_id),
                 !.OwnedChocobosCount = Insert(@, to, new_owned_count),
                 !.OwnedChocobosIndex = Insert(@, choco_id, owned_count)]
    IN Ok(deposit_event(s1, [kind |-> "Created", who |-> to, id |-> choco_id]))

\* mint without its first ensure!: an id that exists is written over
mint_unchecked(s, to, choco_id, new_choco) ==
    LET owned_count == count_by_account(s, to)
        new_owned_count == checked_add(owned_count, 1)
    IN
    IF new_owned_count = None THEN Err(s, "Overflow adding a new chocobo to account")
    ELSE
    LET all_count == s.AllChocobosCount
        new_count == checked_add(all_count, 1)
    IN
    IF new_count = None THEN Err(s, "Overflow adding a new chocobo to total")
    ELSE
    mint_writes(s, to, choco_id, new_choco, owned_count, new_owned_count, all_count, new_count)

mint(s, to, choco_id, new_choco) ==
    IF Exists(s.Chocobos, choco_id) THEN Err(s, "This new chocobo id already exists")
    ELSE
    LET owned_count == count_by_account(s, to)
        new_owned_count == checked_add(owned_count, 1)
    IN
    IF new_owned_count = None THEN Err(s, "Overflow adding a new chocobo to account")
    ELSE
    LET all_count == s.AllChocobosCount
        new_count == checked_add(all_count, 1)
    IN
    IF new_count = None THEN Err(s, "Overflow adding a new chocobo to total")
    ELSE
    mint_writes(s, to, choco_id, new_choco, owned_count, new_owned_count, all_count, new_count)

\* swap_last without the move: the last slot is dropped whatever it holds
swap_last_skipped(s, from, choco_id, new_count_from) == s

\* if choco_index != new_count_from { move the last entry into the hole }
swap_last(s, from, choco_id, new_count_from) ==
    LET choco_index == Get(s.OwnedChocobosIndex, choco_id, 0)
        last_choco_id == choco_of_owner_by_index(s, from, new_count_from)
    IN IF choco_index # new_count_from
       THEN [s EXCEPT
               !.OwnedChocobosArray = Insert(@, <<from, choco_index>>, last_choco_id),
               !.OwnedChocobosIndex = Insert(@, last_choco_id, choco_index)]
       ELSE s

\* the writes of transfer_from, once its four checks have passed
transfer_writes(s, from, to, choco_id, new_count_from, owned_count_to, new_count_to) ==
    LET s1 == swap_last(s, from, choco_id, new_count_from)
        s2 == [s1 EXCEPT
                 !.Owners = Insert(@, choco_id, to),
                 !.OwnedChocobosIndex = Insert(@, choco_id, owned_count_to),
                 !.OwnedChocobosArray =
                     Insert(Remove(@, <<from, new_count_from>>), <<to, owned_count_to>>, choco_id),
                 \* two inserts in this order: with from = to the second one stays
                 !.OwnedChocobosCount = Insert(Insert(@, from, new_count_from), to, new_count_to)]
    IN Ok(deposit_event(s2, [kind |-> "Transferred", from |-> from, to |-> to, id |-> choco_id]))

transfer_from(s, from, to, choco_id) ==
    LET owner == owner_of(s, choco_id) IN
    IF owner = None THEN Err(s, "No owner of this chocobo")
    ELSE IF owner # from THEN Err(s, "You do not own this chocobo")
    ELSE
    LET owned_count_from == count_by_account(s, from)
        owned_count_to == count_by_account(s, to)
        new_count_from == checked_sub(owned_count_from, 1)
        new_count_to == checked_add(owned_count_to, 1)
    IN
    IF new_count_from = None THEN Err(s, "Transfer causes underflow of 'from' account")
    ELSE IF new_count_to = None THEN Err(s, "Transfer causes overflow of 'to' account")
    ELSE
    transfer_writes(s, from, to, choco_id, new_count_from, owned_count_to, new_count_to)

\* balances::Module as Currency: transfer(transactor, dest, value), with no
\* fee and no existential deposit; it fails when the free balance is too low
currency_transfer(s, transactor, dest, value) ==
    IF s.FreeBalance[transactor] < value THEN Err(s, "balance too low to send value")
    ELSE IF transactor = dest THEN Ok(s)
    ELSE Ok([s EXCEPT !.FreeBalance = [@ EXCEPT ![transactor] = @ - value,
                                                 ![dest] = @ + value]])

\* ------------------------------------------------------------ the calls
BadOrigin == "bad origin: expected to be a signed origin"

\* a panic inside a call aborts the extrinsic: none of its writes is kept
Panic(s0) == [s |-> s0, res |-> "panic"]

\* bump_nonce that leaves the nonce alone
bump_nonce_skipped(s) == s

bump_nonce(s) == [s EXCEPT !.Nonce = wrapping_inc(@)]

\* create_chocobo with the nonce advanced before mint is tried
create_chocobo_nonce_first(s, origin, random_seed) ==
    LET sender == ensure_signed(origin) IN
    IF sender = None THEN Err(s, BadOrigin)
    ELSE
    LET random_hash == Hash(random_seed, sender, s.Nonce)
        new_choco == [id |-> random_hash, dna |-> random_hash, price |-> 0,
                      gen |-> 0, wins |-> 0, races |-> 0]
    IN mint(bump_nonce(s), sender, random_hash, new_choco)

\* create_chocobo with the dna field left at its default
create_chocobo_dna_default(s, origin, random_seed) ==
    LET sender == ensure_signed(origin) IN
    IF sender = None THEN Err(s, BadOrigin)
    ELSE
    LET random_hash == Hash(random_seed, sender, s.Nonce)
        new_choco == [id |-> random_hash, dna |-> DefaultHash, price |-> 0,
                      gen |-> 0, wins |-> 0, races |-> 0]
        m == mint(s, sender, random_hash, new_choco)
    IN IF m.res # "Ok" THEN m ELSE Ok(bump_nonce(m.s))

create_chocobo(s, origin, random_seed) ==
    LET sender == ensure_signed(origin) IN
    IF sender = None THEN Err(s, BadOrigin)
    ELSE
    LET nonce == s.Nonce
        random_hash == Hash(random_seed, sender, nonce)
        new_choco == [id |-> random_hash, dna |-> random_hash, price |-> 0,
                      gen |-> 0, wins |-> 0, races |-> 0]
        m == mint(s, sender, random_hash, new_choco)
    IN IF m.res # "Ok" THEN m ELSE Ok(bump_nonce(m.s))

\* set_price without the check that the sender owns the chocobo
set_price_any_sender(s, origin, choco_id, new_price) ==
    LET sender == ensure_signed(origin) IN
    IF sender = None THEN Err(s, BadOrigin)
    ELSE IF ~Exists(s.Chocobos, choco_id) THEN Err(s, "This choco does not exist")
    ELSE
    LET choco == [choco_by_id(s, choco_id) EXCEPT !.price = new_price]
        s1 == [s EXCEPT !.Chocobos = Insert(@, choco_id, choco)]
    IN Ok(deposit_event(s1, [kind |-> "PriceSet", who |-> sender, id |-> choco_id,
                             price |-> new_price]))

set_price(s, origin, choco_id, new_price) ==
    LET sender == ensure_signed(origin) IN
    IF sender = None THEN Err(s, BadOrigin)
    ELSE IF ~Exists(s.Chocobos, choco_id) THEN Err(s, "This choco does not exist")
    ELSE
    LET owner == owner_of(s, choco_id) IN
    IF owner = None THEN Err(s, "No owner for this chocobo")
    ELSE IF owner # sender THEN Err(s, "You do not own this chocobo")
    ELSE
    LET choco == [choco_by_id(s, choco_id) EXCEPT !.price = new_price]
        s1 == [s EXCEPT !.Chocobos = Insert(@, choco_id, choco)]
    IN Ok(deposit_event(s1, [kind |-> "PriceSet", who |-> sender, id |-> choco_id,
                             price |-> new_price]))

\* transfer without the check that the sender owns the chocobo: the owner
\* found in storage is handed to transfer_from
transfer_any_sender(s, origin, to, choco_id) ==
    LET sender == ensure_signed(origin) IN
    IF sender = None THEN Err(s, BadOrigin)
    ELSE
    LET owner == owner_of(s, choco_id) IN
    IF owner = None THEN Err(s, "No owner of this chocobo")
    ELSE transfer_from(s, owner, to, choco_id)

transfer(s, origin, to, choco_id) ==
    LET sender == ensure_signed(origin) IN
    IF sender = None THEN Err(s, BadOrigin)
    ELSE
    LET owner == owner_of(s, choco_id) IN
    IF owner = None THEN Err(s, "No owner of this chocobo")
    ELSE IF owner # sender THEN Err(s, "You do not own this chocobo")
    ELSE transfer_from(s, sender, to, choco_id)

\* buy_settle without the reset of the price
buy_settle_price_kept(s0, s, sender, owner, choco_id, choco, price) ==
    LET t == transfer_from(s, owner, sender, choco_id) IN
    IF t.res # "Ok" THEN Panic(s0)
    ELSE Ok(deposit_event(t.s, [kind |-> "Bought", buyer |-> sender, seller |-> owner,
                                id |-> choco_id, price |-> price]))

\* buy_chocobo after the currency transfer: transfer_from(..).expect(..), the
\* price reset and the Bought event
buy_settle(s0, s, sender, owner, choco_id, choco, price) ==
    LET t == transfer_from(s, owner, sender, choco_id) IN
    IF t.res # "Ok" THEN Panic(s0)
    ELSE
    LET s1 == [t.s EXCEPT !.Chocobos = Insert(@, choco_id, [choco EXCEPT !.price = 0])]
    IN Ok(deposit_event(s1, [kind |-> "Bought", buyer |-> sender, seller |-> owner,
                             id |-> choco_id, price |-> price]))

\* buy_chocobo with the not-for-sale check ahead of the already-owner check
buy_chocobo_sale_first(s, origin, choco_id, max_price) ==
    LET sender == ensure_signed(origin) IN
    IF sender = None THEN Err(s, BadOrigin)
    ELSE IF ~Exists(s.Chocobos, choco_id) THEN Err(s, "This chocobo does not exist")
    ELSE
    LET owner == owner_of(s, choco_id)
        choco == choco_by_id(s, choco_id)
        price == choco.price
    IN
    IF owner = None THEN Err(s, "No owner for this chocobo")
    ELSE IF price = 0 THEN Err(s, "The chocobo you want is not for sale")
    ELSE IF owner = sender THEN Err(s, "You already own this chocobo")
    ELSE IF ~(price <= max_price)
         THEN Err(s, "The chocobo you want costs more than your max price")
    ELSE
    LET paid == currency_transfer(s, sender, owner, price) IN
    IF paid.res # "Ok" THEN paid
    ELSE buy_settle(s, paid.s, sender, owner, choco_id, choco, price)

buy_chocobo(s, origin, choco_id, max_price) ==
    LET sender == ensure_signed(origin) IN
    IF sender = None THEN Err(s, BadOrigin)
    ELSE IF ~Exists(s.Chocobos, choco_id) THEN Err(s, "This chocobo does not exist")
    ELSE
    LET owner == owner_of(s, choco_id) IN
    IF owner = None THEN Err(s, "No owner for this chocobo")
    ELSE IF owner = sender THEN Err(s, "You already own this chocobo")
    ELSE
    LET choco == choco_by_id(s, choco_id)
        price == choco.price
    IN
    IF price = 0 THEN Err(s, "The chocobo you want is not for sale")
    ELSE IF ~(price <= max_price)
         THEN Err(s, "The chocobo you want costs more than your max price")
    ELSE
    LET paid == currency_transfer(s, sender, owner, price) IN
    IF paid.res # "Ok" THEN paid
    ELSE buy_settle(s, paid.s, sender, owner, choco_id, choco, price)

\* crossover with the parents exchanged: the sire's byte where the random
\* byte is even
crossover_swapped(sire_dna, mare_dna, random_hash) ==
    [i \in 1..HashLen |-> IF random_hash[i] % 2 = 0 THEN sire_dna[i] ELSE mare_dna[i]]

\* child_dna: the sire's dna, with the mare's byte wherever the random byte
\* at the same position is even
crossover(sire_dna, mare_dna, random_hash) ==
    [i \in 1..HashLen |-> IF random_hash[i] % 2 = 0 THEN mare_dna[i] ELSE sire_dna[i]]

max(a, b) == IF a >= b THEN a ELSE b

\* breed_chocobo whose child starts with the sire's wins and races
breed_chocobo_inherits(s, origin, sire_id, mare_id, random_seed) ==
    LET sender == ensure_signed(origin) IN
    IF sender = None THEN Err(s, BadOrigin)
    ELSE IF ~Exists(s.Chocobos, sire_id) THEN Err(s, "Sire chocobo does not exist")
    ELSE IF ~Exists(s.Chocobos, mare_id) THEN Err(s, "Mare chocobo does not exist")
    ELSE
    LET nonce == s.Nonce
        random_hash == Hash(random_seed, sender, nonce)
        sire == choco_by_id(s, sire_id)
        mare == choco_by_id(s, mare_id)
        child_dna == crossover(sire.dna, mare.dna, random_hash)
        new_choco == [id |-> random_hash, dna |-> child_dna, price |-> 0,
                      gen |-> wrapping_inc(max(sire.gen, mare.gen)),
                      wins |-> sire.wins, races |-> sire.races]
        m == mint(s, sender, random_hash, new_choco)
    IN IF m.res # "Ok" THEN m
       ELSE Ok(deposit_event(bump_nonce(m.s),
                             [kind |-> "Bred", who |-> sender, sire |-> sire_id,
                              mare |-> mare_id, child |-> random_hash]))

breed_chocobo(s, origin, sire_id, mare_id, random_seed) ==
    LET sender == ensure_signed(origin) IN
    IF sender = None THEN Err(s, BadOrigin)
    ELSE IF ~Exists(s.Chocobos, sire_id) THEN Err(s, "Sire chocobo does not exist")
    ELSE IF ~Exists(s.Chocobos, mare_id) THEN Err(s, "Mare chocobo does not exist")
    ELSE
    LET nonce == s.Nonce
        random_hash == Hash(random_seed, sender, nonce)
        sire == choco_by_id(s, sire_id)
        mare == choco_by_id(s, mare_id)
        child_dna == crossover(sire.dna, mare.dna, random_hash)
        new_choco == [id |-> random_hash, dna |-> child_dna, price |-> 0,
                      gen |-> wrapping_inc(max(sire.gen, mare.gen)),
                      wins |-> 0, races |-> 0]
        m == mint(s, sender, random_hash, new_choco)
    IN IF m.res # "Ok" THEN m
       ELSE Ok(deposit_event(bump_nonce(m.s),
                             [kind |-> "Bred", who |-> sender, sire |-> sire_id,
                              mare |-> mare_id, child |-> random_hash]))

\* race_outcome with > for >=: equal bytes count against the first contender
RECURSIVE race_outcome_strict(_, _, _)
race_outcome_strict(dna1, dna2, i) ==
    IF i > HashLen THEN 0
    ELSE (IF dna1[i] > dna2[i] THEN 1 ELSE -1) + race_outcome_strict(dna1, dna2, i + 1)

\* the loop of race over dna1.zip(dna2), from position i on
RECURSIVE race_outcome(_, _, _)
race_outcome(dna1, dna2, i) ==
    IF i > HashLen THEN 0
    ELSE (IF dna1[i] >= dna2[i] THEN 1 ELSE -1) + race_outcome(dna1, dna2, i + 1)

\* race that stores each contender under the other one's id
race_crossed_inserts(s, origin, choco1_id, choco2_id) ==
    LET sender == ensure_signed(origin) IN
    IF sender = None THEN Err(s, BadOrigin)
    ELSE IF ~Exists(s.Chocobos, choco1_id) THEN Err(s, "Chocobo contender1 does not exist")
    ELSE IF ~Exists(s.Chocobos, choco2_id) THEN Err(s, "Chocobo contender1 does not exist")
    ELSE
    LET choco1 == choco_by_id(s, choco1_id)
        choco2 == choco_by_id(s, choco2_id)
        outcome == race_outcome(choco1.dna, choco2.dna, 1)
        winner == IF outcome >= 0 THEN choco1_id ELSE choco2_id
        raced1 == [choco1 EXCEPT !.races = wrapping_inc(@),
                                 !.wins = IF outcome >= 0 THEN wrapping_inc(@) ELSE @]
        raced2 == [choco2 EXCEPT !.races = wrapping_inc(@),
                                 !.wins = IF outcome >= 0 THEN @ ELSE wrapping_inc(@)]
        s1 == [s EXCEPT !.Chocobos = Insert(Insert(@, choco2_id, raced1), choco1_id, raced2)]
    IN Ok(deposit_event(bump_nonce(s1),
                        [kind |-> "Raced", who |-> sender, id1 |-> choco1_id,
                         id2 |-> choco2_id, winner |-> winner]))

\* race that adds no race to the second contender
race_second_uncounted(s, origin, choco1_id, choco2_id) ==
    LET sender == ensure_signed(origin) IN
    IF sender = None THEN Err(s, BadOrigin)
    ELSE IF ~Exists(s.Chocobos, choco1_id) THEN Err(s, "Chocobo contender1 does not exist")
    ELSE IF ~Exists(s.Chocobos, choco2_id) THEN Err(s, "Chocobo contender1 does not exist")
    ELSE
    LET choco1 == choco_by_id(s, choco1_id)
        choco2 == choco_by_id(s, choco2_id)
        outcome == race_outcome(choco1.dna, choco2.dna, 1)
        winner == IF outcome >= 0 THEN choco1_id ELSE choco2_id
        raced1 == [choco1 EXCEPT !.races = wrapping_inc(@),
                                 !.wins = IF outcome >= 0 THEN wrapping_inc(@) ELSE @]
        raced2 == [choco2 EXCEPT !.races = @,
                                 !.wins = IF outcome >= 0 THEN @ ELSE wrapping_inc(@)]
        s1 == [s EXCEPT !.Chocobos = Insert(Insert(@, choco1_id, raced1), choco2_id, raced2)]
    IN Ok(deposit_event(bump_nonce(s1),
                        [kind |-> "Raced", who |-> sender, id1 |-> choco1_id,
                         id2 |-> choco2_id, winner |-> winner]))

race(s, origin, choco1_id, choco2_id) ==
    LET sender == ensure_signed(origin) IN
    IF sender = None THEN Err(s, BadOrigin)
    ELSE IF ~Exists(s.Chocobos, choco1_id) THEN Err(s, "Chocobo contender1 does not exist")
    ELSE IF ~Exists(s.Chocobos, choco2_id) THEN Err(s, "Chocobo contender1 does not exist")
    ELSE
    LET choco1 == choco_by_id(s, choco1_id)
        choco2 == choco_by_id(s, choco2_id)
        outcome == race_outcome(choco1.dna, choco2.dna, 1)
        winner == IF outcome >= 0 THEN choco1_id ELSE choco2_id
        raced1 == [choco1 EXCEPT !.races = wrapping_inc(@),
                                 !.wins = IF outcome >= 0 THEN wrapping_inc(@) ELSE @]
        raced2 == [choco2 EXCEPT !.races = wrapping_inc(@),
                                 !.wins = IF outcome >= 0 THEN @ ELSE wrapping_inc(@)]
        \* two inserts in this order: with choco1_id = choco2_id the second one stays
        s1 == [s EXCEPT !.Chocobos = Insert(Insert(@, choco1_id, raced1), choco2_id, raced2)]
    IN Ok(deposit_event(bump_nonce(s1),
                        [kind |-> "Raced", who |-> sender, id1 |-> choco1_id,
                         id2 |-> choco2_id, winner |-> winner]))

\* ------------------------------------------------------ the state machine
Init ==
    /\ Chocobos = EmptyMap
    /\ Owners = EmptyMap
    /\ AllChocobosArray = EmptyMap
    /\ AllChocobosCount = 0
    /\ AllChocobosIndex = EmptyMap
    /\ OwnedChocobosArray = EmptyMap
    /\ OwnedChocobosCount = EmptyMap
    /\ OwnedChocobosIndex = EmptyMap
    /\ Nonce = 0
    \* genesis: account 1 holds nothing, every other account the largest price
    /\ FreeBalance = [a \in AccountId |-> IF a = 1 THEN 0 ELSE MaxPrice]
    /\ events = <<>>
    /\ call = [op |-> "genesis", origin |-> 0, res |-> "Ok"]
    /\ pre = Store

\* The state after call c returned r: the store r holds, the store the call was
\* dispatched on, and the call with its Result.  A call that succeeded is
\* recorded with its arguments, one that failed by name, origin and error.
Dispatched(r, c) ==
    /\ Chocobos' = r.s.Chocobos
    /\ Owners' = r.s.Owners
    /\ AllChocobosArray' = r.s.AllChocobosArray
    /\ AllChocobosCount' = r.s.AllChocobosCount
    /\ AllChocobosIndex' = r.s.AllChocobosIndex
    /\ OwnedChocobosArray' = r.s.OwnedChocobosArray
    /\ OwnedChocobosCount' = r.s.OwnedChocobosCount
    /\ OwnedChocobosIndex' = r.s.OwnedChocobosIndex
    /\ Nonce' = r.s.Nonce
    /\ FreeBalance' = r.s.FreeBalance
    /\ events' = r.s.events
    /\ call' = IF r.res = "Ok" THEN [c EXCEPT !.res = "Ok"]
                ELSE [op |-> c.op, origin |-> c.origin, res |-> r.res]
    /\ pre' = Store

\* Calls are dispatched while the event log is short, and not after a call
\* that returned an error: such a call leaves the store as it found it, so
\* what can follow it is what can follow the state it was dispatched on.
CanDispatch == Len(events) < MaxEvents /\ call.res = "Ok"

\* the ids a caller names: every minted one, and one that was never minted
HashArgs == (DOMAIN Chocobos) \cup {DefaultHash}

CallCreate ==
    \E origin \in Origin, seed \in Seeds :
        /\ CanDispatch
        /\ Dispatched(create_chocobo(Store, origin, seed),
                      [op |-> "create_chocobo", origin |-> origin, seed |-> seed, res |-> ""])

CallSetPrice ==
    \E origin \in Origin, id \in HashArgs, new_price \in Balance :
        /\ CanDispatch
        /\ Dispatched(set_price(Store, origin, id, new_price),
                      [op |-> "set_price", origin |-> origin, id |-> id,
                       price |-> new_price, res |-> ""])

CallTransfer ==
    \E origin \in Origin, to \in AccountId, id \in HashArgs :
        /\ CanDispatch
        /\ Dispatched(transfer(Store, origin, to, id),
                      [op |-> "transfer", origin |-> origin, to |-> to, id |-> id, res |-> ""])

CallBuy ==
    \E origin \in Origin, id \in HashArgs, max_price \in Balance :
        /\ CanDispatch
        /\ Dispatched(buy_chocobo(Store, origin, id, max_price),
                      [op |-> "buy_chocobo", origin |-> origin, id |-> id,
                       max_price |-> max_price, res |-> ""])

CallBreed ==
    \E origin \in Origin, sire_id \in HashArgs, mare_id \in HashArgs, seed \in Seeds :
        /\ CanDispatch
        /\ Dispatched(breed_chocobo(Store, origin, sire_id, mare_id, seed),
                      [op |-> "breed_chocobo", origin |-> origin, sire |-> sire_id,
                       mare |-> mare_id, seed |-> seed, res |-> ""])

CallRace ==
    \E origin \in Origin, id1 \in HashArgs, id2 \in HashArgs :
        /\ CanDispatch
        /\ Dispatched(race(Store, origin, id1, id2),
                      [op |-> "race", origin |-> origin, id1 |-> id1, id2 |-> id2, res |-> ""])

Next ==
    \/ CallCreate
    \/ CallSetPrice
    \/ CallTransfer
    \/ CallBuy
    \/ CallBreed
    \/ CallRace

Spec == Init /\ [][Next]_vars

\* ------------------------------------------------------------ the claims
Succeeded(op) == call.op = op /\ call.res = "Ok"

\* the ids enumerated for `who`: positions 0 .. count - 1 of its array
OwnedSet(s, who) ==
    {choco_of_owner_by_index(s, who, i) : i \in 0..(count_by_account(s, who) - 1)}

\* the positions below the count of some account that hold `id`
PositionsOf(s, id) ==
    UNION {{<<who, i>> : i \in {j \in 0..(count_by_account(s, who) - 1) :
                                   choco_of_owner_by_index(s, who, j) = id}} :
           who \in AccountId}

\* C1: in every reachable state every position below an account's count holds
\* an existing chocobo that the account owns and whose reverse index is that
\* position, and every existing chocobo is at exactly one such position.
C1_OwnedArraysConsistent ==
    /\ \A o \in AccountId : \A i \in 0..(count_by_account(Store, o) - 1) :
          LET id == choco_of_owner_by_index(Store, o, i) IN
          /\ Exists(Chocobos, id)
          /\ owner_of(Store, id) = o
          /\ Get(OwnedChocobosIndex, id, 0) = i
    /\ \A id \in DOMAIN Chocobos : Cardinality(PositionsOf(Store, id)) = 1

\* C2: in every reachable state the global array and its reverse index agree
\* at every position below the global count, and the global count is the
\* number of entries of Chocobos.
C2_AllArrayConsistent ==
    /\ \A i \in 0..(AllChocobosCount - 1) :
          /\ Exists(AllChocobosArray, i)
          /\ Exists(AllChocobosIndex, choco_by_index(Store, i))
          /\ AllChocobosIndex[choco_by_index(Store, i)] = i
    /\ AllChocobosCount = Cardinality(DOMAIN Chocobos)

C2_Witness ==
    /\ Succeeded("breed_chocobo")
    /\ AllChocobosCount = 3
    /\ Cardinality({AllChocobosArray[i] : i \in 0..2}) = 3

\* the transfer_from a successful transfer or buy_chocobo made:
\* transfer passes (sender, to), buy_chocobo passes (owner, sender)
MovedFrom == IF call.op = "transfer" THEN call.origin ELSE owner_of(pre, call.id)

MovedTo == IF call.op = "transfer" THEN call.to ELSE call.origin

\* C3: a successful transfer_from(a, b, id) between distinct accounts makes b
\* the owner, takes 1 from a's count and adds 1 to b's, leaves the global count
\* alone, and the ids enumerated for a are those before without id, those
\* enumerated for b those before with id.
C3_TransferFromMoves ==
    ((Succeeded("transfer") \/ Succeeded("buy_chocobo")) /\ MovedFrom # MovedTo) =>
        /\ owner_of(pre, call.id) = MovedFrom
        /\ owner_of(Store, call.id) = MovedTo
        /\ count_by_account(Store, MovedFrom) = count_by_account(pre, MovedFrom) - 1
        /\ count_by_account(Store, MovedTo) = count_by_account(pre, MovedTo) + 1
        /\ AllChocobosCount = pre.AllChocobosCount
        /\ OwnedSet(Store, MovedFrom) = OwnedSet(pre, MovedFrom) \ {call.id}
        /\ OwnedSet(Store, MovedTo) = OwnedSet(pre, MovedTo) \cup {call.id}

\* the moved id was not the last of two entries: the swap of transfer_from ran
C3_Witness ==
    /\ Succeeded("transfer")
    /\ MovedFrom # MovedTo
    /\ count_by_account(pre, MovedFrom) = 2
    /\ Get(pre.OwnedChocobosIndex, call.id, 0) = 0
    /\ Cardinality(OwnedSet(pre, MovedFrom)) = 2

\* C4: once buy_chocobo's checks and its currency transfer have succeeded, the
\* transfer_from(seller, buyer, id) that follows cannot fail: no call panics,
\* every owner's count is at least 1 and every count is below u64::MAX.
C4_BuyTransferCannotFail ==
    LET s == Store IN
    /\ call.res # "panic"
    /\ \A who \in AccountId : count_by_account(s, who) < U64Max
    /\ \A id \in DOMAIN Chocobos :
          LET seller == owner_of(s, id)
              price == choco_by_id(s, id).price
          IN /\ seller # None
             /\ count_by_account(s, seller) >= 1
             /\ \A buyer \in AccountId \ {seller} :
                   LET paid == currency_transfer(s, buyer, seller, price) IN
                   (price # 0 /\ paid.res = "Ok") =>
                       transfer_from(paid.s, seller, buyer, id).res = "Ok"

\* a buy that took the seller's only chocobo
C4_Witness ==
    /\ Succeeded("buy_chocobo")
    /\ count_by_account(pre, owner_of(pre, call.id)) = 1
    /\ count_by_account(Store, owner_of(pre, call.id)) = 0

\* C5: a successful buy_chocobo makes the buyer the owner, resets the price to
\* 0 and moves the former price from the buyer's balance to the seller's; a
\* buy_chocobo that does not succeed changes none of them.
C5_BuyAllOrNothing ==
    call.op = "buy_chocobo" =>
        IF call.res = "Ok"
        THEN LET seller == owner_of(pre, call.id)
                 price == choco_by_id(pre, call.id).price
             IN /\ seller # call.origin
                /\ price > 0
                /\ owner_of(Store, call.id) = call.origin
                /\ choco_by_id(Store, call.id).price = 0
                /\ FreeBalance[call.origin] = pre.FreeBalance[call.origin] - price
                /\ FreeBalance[seller] = pre.FreeBalance[seller] + price
        ELSE /\ Owners = pre.Owners
             /\ Chocobos = pre.Chocobos
             /\ FreeBalance = pre.FreeBalance

C5_Witness ==
    /\ Succeeded("buy_chocobo")
    /\ choco_by_id(pre, call.id).price = MaxPrice
    /\ FreeBalance[call.origin] = 0
    /\ FreeBalance[owner_of(pre, call.id)] = MaxPrice

\* C6: a call that returns an error leaves the whole store as it was and
\* appends no event.
C6_ErrorLeavesStore ==
    call.res # "Ok" => Store = pre

\* a call that failed at its last fallible step
C6_Witness ==
    /\ call.op = "buy_chocobo"
    /\ call.res = "balance too low to send value"
    /\ events = pre.events

MintErrors ==
    {"This new chocobo id already exists",
     "Overflow adding a new chocobo to account",
     "Overflow adding a new chocobo to total"}

\* the store with the global count, or the count of `who`, at u64::MAX: no
\* run of the model gets there, mint is evaluated on it as a function
AtGlobalMax(s) == [s EXCEPT !.AllChocobosCount = U64Max]

AtOwnedMax(s, who) == [s EXCEPT !.OwnedChocobosCount = Insert(@, who, U64Max)]

\* C7: mint of an id that exists fails and writes nothing, so a successful
\* create or breed mints an id that did not exist; a mint that overflows a
\* count writes nothing; a create or breed whose mint fails leaves the store,
\* the nonce included, as it was.
C7_DuplicateMintRejected ==
    LET s == Store
        full == AtGlobalMax(s)
    IN
    /\ \A to \in AccountId : \A id \in DOMAIN Chocobos :
          mint(s, to, id, DefaultChocobo) = Err(s, "This new chocobo id already exists")
    /\ \A to \in AccountId :
          /\ mint(full, to, DefaultHash, DefaultChocobo)
                = Err(full, "Overflow adding a new chocobo to total")
          /\ mint(AtOwnedMax(s, to), to, DefaultHash, DefaultChocobo)
                = Err(AtOwnedMax(s, to), "Overflow adding a new chocobo to account")
    /\ (Succeeded("create_chocobo") \/ Succeeded("breed_chocobo")) =>
          LET id == Hash(call.seed, call.origin, pre.Nonce) IN
          /\ ~Exists(pre.Chocobos, id)
          /\ DOMAIN Chocobos = DOMAIN pre.Chocobos \cup {id}
    /\ (call.op \in {"create_chocobo", "breed_chocobo"} /\ call.res \in MintErrors) =>
          /\ Nonce = pre.Nonce
          /\ Store = pre

C7_Witness ==
    /\ call.op = "create_chocobo"
    /\ call.res = "This new chocobo id already exists"
    /\ Nonce = pre.Nonce
    /\ AllChocobosCount >= 1

\* C8: a successful create_chocobo adds one chocobo whose id and dna are the
\* derived hash, with price, gen, wins and races 0, owned by the caller, at the
\* former global count and the caller's former count, with both reverse
\* indexes; no other entry of any map changes.
C8_CreateAddsOne ==
    Succeeded("create_chocobo") =>
        LET c == call.origin
            id == Hash(call.seed, c, pre.Nonce)
            n == pre.AllChocobosCount
            k == count_by_account(pre, c)
        IN /\ ~Exists(pre.Chocobos, id)
           /\ Chocobos = Insert(pre.Chocobos, id,
                                [id |-> id, dna |-> id, price |-> 0,
                                 gen |-> 0, wins |-> 0, races |-> 0])
           /\ Owners = Insert(pre.Owners, id, c)
           /\ AllChocobosCount = n + 1
           /\ AllChocobosArray = Insert(pre.AllChocobosArray, n, id)
           /\ AllChocobosIndex = Insert(pre.AllChocobosIndex, id, n)
           /\ OwnedChocobosCount = Insert(pre.OwnedChocobosCount, c, k + 1)
           /\ OwnedChocobosArray = Insert(pre.OwnedChocobosArray, <<c, k>>, id)
           /\ OwnedChocobosIndex = Insert(pre.OwnedChocobosIndex, id, k)
           /\ FreeBalance = pre.FreeBalance

\* a create by an account that already owned one, when another account did too
C8_Witness ==
    /\ Succeeded("create_chocobo")
    /\ count_by_account(pre, call.origin) = 1
    /\ pre.AllChocobosCount = 2
    /\ AllChocobosCount = 3

\* C9: the owner of an existing chocobo changes only in a successful transfer
\* by its owner (to the recipient) or a successful buy_chocobo by a non-owner
\* of a chocobo priced above 0 and at most max_price (to the buyer); a
\* transfer succeeds only for the owner.
C9_OwnerChangesOnlyByTransferOrBuy ==
    /\ \A id \in DOMAIN pre.Chocobos :
          owner_of(Store, id) # owner_of(pre, id) =>
             /\ call.res = "Ok"
             /\ call.op \in {"transfer", "buy_chocobo"}
             /\ call.id = id
             /\ call.op = "transfer" =>
                   /\ call.origin = owner_of(pre, id)
                   /\ owner_of(Store, id) = call.to
             /\ call.op = "buy_chocobo" =>
                   /\ call.origin # owner_of(pre, id)
                   /\ choco_by_id(pre, id).price > 0
                   /\ choco_by_id(pre, id).price <= call.max_price
                   /\ owner_of(Store, id) = call.origin
    /\ Succeeded("transfer") => call.origin = owner_of(pre, call.id)

C9_Witness ==
    /\ Succeeded("transfer")
    /\ owner_of(pre, call.id) = call.origin
    /\ owner_of(Store, call.id) = call.to
    /\ call.to # call.origin

\* C10: set_price succeeds only for an existing chocobo and its owner; it then
\* sets the price, appends PriceSet(caller, id, new_price) and changes nothing
\* else.
C10_SetPriceFrame ==
    Succeeded("set_price") =>
        /\ Exists(pre.Chocobos, call.id)
        /\ owner_of(pre, call.id) = call.origin
        /\ choco_by_id(Store, call.id).price = call.price
        /\ Store = [pre EXCEPT
                      !.Chocobos = [@ EXCEPT ![call.id].price = call.price],
                      !.events = Append(@, [kind |-> "PriceSet", who |-> call.origin,
                                            id |-> call.id, price |-> call.price])]

C10_Witness ==
    /\ Succeeded("set_price")
    /\ choco_by_id(pre, call.id).price # call.price
    /\ Cardinality(DOMAIN pre.Chocobos) = 2

\* the two contenders of the last race, as a set (one element when the
\* same id was named twice)
Contenders == {call.id1, call.id2}

\* C11: a successful race(id1, id2), id1 = id2 allowed, adds exactly 1 to the
\* races of each contender and exactly 1 to the wins of exactly one contender.
C11_RaceCountsOnce ==
    Succeeded("race") =>
        /\ \A id \in Contenders :
              choco_by_id(Store, id).races = choco_by_id(pre, id).races + 1
        /\ \E w \in Contenders :
              /\ choco_by_id(Store, w).wins = choco_by_id(pre, w).wins + 1
              /\ \A id \in Contenders \ {w} :
                    choco_by_id(Store, id).wins = choco_by_id(pre, id).wins

\* C12: a successful breed_chocobo mints one child, owned by the caller, with
\* price, wins and races 0, gen one above the larger gen of the parents, and
\* at every position the mare's byte when the random byte is even, the sire's
\* otherwise; no existing chocobo changes.
C12_BreedMintsChild ==
    Succeeded("breed_chocobo") =>
        LET random_hash == Hash(call.seed, call.origin, pre.Nonce)
            sire == choco_by_id(pre, call.sire)
            mare == choco_by_id(pre, call.mare)
            child == choco_by_id(Store, random_hash)
        IN /\ Exists(pre.Chocobos, call.sire) /\ Exists(pre.Chocobos, call.mare)
           /\ DOMAIN Chocobos = DOMAIN pre.Chocobos \cup {random_hash}
           /\ ~Exists(pre.Chocobos, random_hash)
           /\ \A id \in DOMAIN pre.Chocobos : Chocobos[id] = pre.Chocobos[id]
           /\ owner_of(Store, random_hash) = call.origin
           /\ child.id = random_hash
           /\ child.price = 0 /\ child.wins = 0 /\ child.races = 0
           /\ child.gen = (IF sire.gen >= mare.gen THEN sire.gen ELSE mare.gen) + 1
           /\ \A i \in 1..HashLen :
                 /\ random_hash[i] % 2 = 0 => child.dna[i] = mare.dna[i]
                 /\ random_hash[i] % 2 = 1 => child.dna[i] = sire.dna[i]

\* a child that is a true mix of two parents the caller does not own
C12_Witness ==
    /\ Succeeded("breed_chocobo")
    /\ owner_of(pre, call.sire) # call.origin
    /\ owner_of(pre, call.mare) # call.origin
    /\ LET dna == choco_by_id(Store, Hash(call.seed, call.origin, pre.Nonce)).dna IN
       /\ dna # choco_by_id(pre, call.sire).dna
       /\ dna # choco_by_id(pre, call.mare).dna

\* C13: a chocobo that exists keeps existing and keeps an owner (a chocobo
\* exists exactly when it has one); the global count does not decrease and no
\* entry of the global array below it changes or goes.
C13_NothingRemoved ==
    /\ DOMAIN pre.Chocobos \subseteq DOMAIN Chocobos
    /\ DOMAIN Owners = DOMAIN Chocobos
    /\ \A id \in DOMAIN Chocobos : owner_of(Store, id) \in AccountId
    /\ AllChocobosCount >= pre.AllChocobosCount
    /\ \A i \in 0..(pre.AllChocobosCount - 1) :
          /\ Exists(AllChocobosArray, i)
          /\ Exists(pre.AllChocobosArray, i)
          /\ AllChocobosArray[i] = pre.AllChocobosArray[i]

\* a mint by an account whose count was below the global count
C13_Witness ==
    /\ Succeeded("create_chocobo")
    /\ pre.AllChocobosCount = 2
    /\ count_by_account(pre, call.origin) = 0
    /\ AllChocobosArray[0] = pre.AllChocobosArray[0]
    /\ AllChocobosArray[1] = pre.AllChocobosArray[1]

\* what buy_chocobo(id, max_price) signed by buyer returns when its checks are
\* made in the order: absent, already owner, not for sale, price above
\* max_price, currency transfer
BuyVerdict(s, buyer, id, max_price) ==
    IF ~Exists(s.Chocobos, id) THEN "This chocobo does not exist"
    ELSE IF owner_of(s, id) = buyer THEN "You already own this chocobo"
    ELSE IF choco_by_id(s, id).price = 0 THEN "The chocobo you want is not for sale"
    ELSE IF choco_by_id(s, id).price > max_price
         THEN "The chocobo you want costs more than your max price"
    ELSE IF s.FreeBalance[buyer] < choco_by_id(s, id).price
         THEN "balance too low to send value"
    ELSE "Ok"

\* C14: buy_chocobo reports the first check that fails, in the order absent,
\* already owner, not for sale, above max_price, currency transfer, and
\* succeeds exactly when none fails.  The verdicts of all calls are compared in
\* every store a successful call left (a failed call leaves the store it found,
\* C6); the result of the call that was dispatched is compared with the verdict
\* in the store it found.
C14_BuyCheckOrder ==
    /\ call.res = "Ok" =>
          LET s == Store IN
          \A buyer \in AccountId, id \in HashArgs, max_price \in Balance :
              buy_chocobo(s, buyer, id, max_price).res = BuyVerdict(s, buyer, id, max_price)
    /\ Succeeded("buy_chocobo") =>
          BuyVerdict(pre, call.origin, call.id, call.max_price) = "Ok"
    /\ (call.op = "buy_chocobo" /\ call.res # "Ok" /\ call.origin \in AccountId) =>
          \E id \in HashArgs, max_price \in Balance :
              call.res = BuyVerdict(pre, call.origin, id, max_price)

\* the owner of every chocobo there is, all of them unlisted, was told that it
\* owns the one it asked to buy
C14_Witness ==
    /\ call.op = "buy_chocobo"
    /\ call.res = "You already own this chocobo"
    /\ DOMAIN Chocobos # {}
    /\ \A id \in DOMAIN Chocobos :
          owner_of(Store, id) = call.origin /\ choco_by_id(Store, id).price = 0

\* positions where the first dna is at least / is below the second
AtLeast(dna1, dna2) == {i \in 1..HashLen : dna1[i] >= dna2[i]}

Below(dna1, dna2) == {i \in 1..HashLen : dna1[i] < dna2[i]}

\* C15: the winner named in the Raced event of race(id1, id2) is id1 exactly
\* when the positions with dna1[i] >= dna2[i] are at least as many as those
\* with dna1[i] < dna2[i], and id2 otherwise.
C15_RaceWinner ==
    Succeeded("race") =>
        LET dna1 == choco_by_id(pre, call.id1).dna
            dna2 == choco_by_id(pre, call.id2).dna
            first_wins == Cardinality(AtLeast(dna1, dna2)) >= Cardinality(Below(dna1, dna2))
        IN events[Len(events)] =
              [kind |-> "Raced", who |-> call.origin, id1 |-> call.id1, id2 |-> call.id2,
               winner |-> IF first_wins THEN call.id1 ELSE call.id2]

\* a tie between two different chocobos, won by the first
C15_Witness ==
    /\ Succeeded("race")
    /\ call.id1 # call.id2
    /\ LET dna1 == choco_by_id(pre, call.id1).dna
           dna2 == choco_by_id(pre, call.id2).dna
       IN /\ Cardinality(AtLeast(dna1, dna2)) = Cardinality(Below(dna1, dna2))
          /\ Cardinality(AtLeast(dna2, dna1)) = Cardinality(Below(dna2, dna1))
    /\ events[Len(events)].winner = call.id1

\* C16: the nonce goes up by exactly 1 in a successful create_chocobo,
\* breed_chocobo or race, stays as it was in set_price, transfer, buy_chocobo
\* and in every failed call, and so never goes down.
C16_NonceSteps ==
    /\ (Succeeded("create_chocobo") \/ Succeeded("breed_chocobo") \/ Succeeded("race"))
          => Nonce = pre.Nonce + 1
    /\ (call.op \in {"set_price", "transfer", "buy_chocobo"} \/ call.res # "Ok")
          => Nonce = pre.Nonce
    /\ Nonce >= pre.Nonce

\* a race, which mints nothing, moved the nonce on from a value above 0
C16_Witness ==
    /\ Succeeded("race")
    /\ pre.Nonce > 0
    /\ Nonce = pre.Nonce + 1

\* C17: the id, dna and gen of a chocobo that exists are never changed by a
\* later call.
C17_IdentityImmutable ==
    \A id \in DOMAIN pre.Chocobos :
        /\ Exists(Chocobos, id)
        /\ choco_by_id(Store, id).id = choco_by_id(pre, id).id
        /\ choco_by_id(Store, id).dna = choco_by_id(pre, id).dna
        /\ choco_by_id(Store, id).gen = choco_by_id(pre, id).gen

\* a race between two chocobos of different dna rewrote both records
C17_Witness ==
    /\ Succeeded("race")
    /\ call.id1 # call.id2
    /\ choco_by_id(pre, call.id1).dna # choco_by_id(pre, call.id2).dna
    /\ choco_by_id(Store, call.id1) # choco_by_id(pre, call.id1)
    /\ choco_by_id(Store, call.id2) # choco_by_id(pre, call.id2)

\* C18: wins and races of a chocobo are 0 when it is minted, change only in a
\* successful race that names it, and never go down.
C18_CountersOnlyByRace ==
    /\ \A id \in DOMAIN Chocobos \ DOMAIN pre.Chocobos :
          choco_by_id(Store, id).wins = 0 /\ choco_by_id(Store, id).races = 0
    /\ \A id \in DOMAIN Chocobos \cap DOMAIN pre.Chocobos :
          /\ choco_by_id(Store, id).wins >= choco_by_id(pre, id).wins
          /\ choco_by_id(Store, id).races >= choco_by_id(pre, id).races
          /\ \/ /\ choco_by_id(Store, id).wins = choco_by_id(pre, id).wins
                /\ choco_by_id(Store, id).races = choco_by_id(pre, id).races
             \/ Succeeded("race") /\ id \in Contenders

\* a chocobo that has raced was bred from, and its child starts at 0
C18_Witness ==
    /\ Succeeded("breed_chocobo")
    /\ choco_by_id(pre, call.sire).races > 0
    /\ \E id \in DOMAIN Chocobos \ DOMAIN pre.Chocobos : choco_by_id(Store, id).races = 0

\* C19: a successful transfer to the caller itself leaves the caller's count,
\* the set of ids at the positions below it and the owner of the chocobo as
\* they were.
C19_SelfTransferNoOp ==
    (Succeeded("transfer") /\ call.to = call.origin) =>
        /\ count_by_account(Store, call.origin) = count_by_account(pre, call.origin)
        /\ OwnedSet(Store, call.origin) = OwnedSet(pre, call.origin)
        /\ owner_of(Store, call.id) = owner_of(pre, call.id)

\* C20: no chocobo has more wins than races.
C20_WinsAtMostRaces ==
    \A id \in DOMAIN Chocobos : choco_by_id(Store, id).wins <= choco_by_id(Store, id).races

\* the second contender of a race between two chocobos won it
C20_Witness ==
    /\ Succeeded("race")
    /\ call.id1 # call.id2
    /\ events[Len(events)].winner = call.id2
    /\ choco_by_id(Store, call.id2).wins = 1
    /\ choco_by_id(Store, call.id2).races = 1
    /\ choco_by_id(Store, call.id1).wins < choco_by_id(Store, call.id1).races

====
